---- MODULE Spec2Model ----
(***************************************************************************)
(* The observation / dependency-tracking core of src/core/observer:        *)
(* observe / Observer / defineReactive / set / del (index.js), Dep and the *)
(* active-reader stack (dep.js) and the array mutation interceptor         *)
(* (array.js, kept as src/unnamed/part_000).                               *)
(*                                                                         *)
(* JavaScript values are strings: the primitives "undef" (undefined and    *)
(* null), "n1", "n2" (the numbers 1 and 2) and "NaN", and the references   *)
(* of Refs.  Observers and Deps are heap objects created by `new`: an      *)
(* Observer is its index in obs, a Dep its index in subs (uid counts from  *)
(* 0 in the source, so Dep.id = index - 1); 0 stands for undefined.        *)
(* A Subscriber (Watcher) is its id; 0 is "no reader" (null / undefined).  *)
(***************************************************************************)
EXTENDS Integers, Sequences, FiniteSets, TLC

\* ---------------------------------------------------------------- bounds
\* calls the surrounding code makes in one behaviour (reads, writes and API
\* calls, the ones made inside update() included)
MaxCalls == 3
\* the same, where only one Dep is exercised, and where one observed
\* object is read and written
MaxDepCalls == 5
MaxPropCalls == 5
MaxSetCalls == 3
MaxAddCalls == 5
MaxArrCalls == 3
MaxReadCalls == 5
MaxGateCalls == 4
MaxGraphCalls == 3
\* calls of one reentrant write, the writes made by update() included
MaxConvCalls == 8
\* renders of the keep-alive component
MaxRenders == 5
\* largest array index the callers pass to set and del
MaxIndex == 4

\* -------------------------------------------------------------- universe
ObjRefs == {"o1", "o2"}
ArrRefs == {"a1", "a2"}
Refs == ObjRefs \cup ArrRefs \cup {"vn", "vm", "fz"}
Prims == {"undef", "n1", "n2", "NaN"}
Values == Prims \cup Refs
Names == {"a", "b"}
Subscribers == {1, 2, 3}

\* Object.keys order of the named keys
KeyOrder == <<"a", "b">>

\* decimal spellings of the array indices
Digits == <<"0", "1", "2", "3", "4", "5", "6", "7", "8", "9">>
IndexKeys == {Digits[i + 1] : i \in 0..MaxIndex}
Keys == Names \cup IndexKeys

VARIABLES
  props,        \* props[o][k]: the own property k of object o (a slot record)
  elems,        \* elems[a]: the elements of array a
  marker,       \* marker[r]: r.__ob__ (an Observer, or 0)
  obs,          \* the Observer instances: [value, dep, vmCount]
  subs,         \* the Dep instances: subs[d] is d.subs; Len(subs) is uid
  depIds,       \* depIds[w]: the Deps Subscriber w has joined
  DepTarget,    \* Dep.target
  targetStack,  \* targetStack
  shouldObserve,
  env,          \* [production, async, ssr]: NODE_ENV, config.async, isServerRendering()
  frames,       \* the notify() passes on the call stack, innermost last
  done,         \* the notify() pass that returned last
  last,         \* the last API call: what was asked and what it did
  calls,        \* calls made so far
  limit,        \* calls the surrounding code makes at most
  cache,        \* keep-alive: this.cache, cache[key] a vnode or 0 (null)
  keys,         \* keep-alive: this.keys
  max,          \* keep-alive: parseInt(this.max), 0 when max is falsy
  rendered      \* keep-alive: the last render, and when each key was used

vars == <<props, elems, marker, obs, subs, depIds, DepTarget, targetStack,
          shouldObserve, env, frames, done, last, calls, limit,
          cache, keys, max, rendered>>

\* ------------------------------------------------------- value predicates
\* isObject: value !== null && typeof value === 'object'
isObject(v) == v \in Refs
\* isUndef(v) || isPrimitive(v), with null and undefined both "undef"
isUndefOrPrimitive(v) == v \in Prims
isArray(v) == v \in ArrRefs
\* isPlainObject: toString is [object Object] (a Vue instance is one too)
isPlainObject(v) == v \in ObjRefs \cup {"vm", "fz", "vn"}
isVNode(v) == v = "vn"
isExtensible(v) == v \in Refs \ {"fz"}
isVue(v) == v = "vm"

\* newVal === value: NaN is unequal to itself, a reference equal to itself
StrictEq(x, y) == x = y /\ x # "NaN"

\* isValidArrayIndex(key): key spells a non-negative integer
isValidArrayIndex(key) == \E i \in 1..Len(Digits) : Digits[i] = key
\* the number a valid index key spells
ToIndex(key) == (CHOOSE i \in 1..Len(Digits) : Digits[i] = key) - 1

Max(x, y) == IF x >= y THEN x ELSE y
Min(x, y) == IF x <= y THEN x ELSE y

\* ------------------------------------------------------------ the heap
\* An own property.  A data property keeps its value in val; an accessor
\* property of the caller (getter / setter) reads and writes store.  Once
\* reactive, val, childOb and dep are the closure variables of defineReactive.
NoSlot ==
  [has |-> FALSE, reactive |-> FALSE, val |-> "undef", childOb |-> 0, dep |-> 0,
   getter |-> FALSE, setter |-> FALSE, store |-> "undef",
   configurable |-> TRUE, shallow |-> FALSE]
DataSlot(v) == [NoSlot EXCEPT !.has = TRUE, !.val = v]
AccessorSlot(g, s, v) ==
  [NoSlot EXCEPT !.has = TRUE, !.getter = g, !.setter = s, !.store = v]
FixedSlot(v) == [NoSlot EXCEPT !.has = TRUE, !.val = v, !.configurable = FALSE]

\* The heap an operation works on, threaded through the calls it makes;
\* ret is the value the last call returned.
\* A returned value: a JavaScript value, a number (a new length), a fresh
\* array (splice) or an Observer.
RVal(v) == [kind |-> "value", val |-> v, num |-> 0, list |-> <<>>]
RNum(n) == [kind |-> "number", val |-> "undef", num |-> n, list |-> <<>>]
RList(l) == [kind |-> "list", val |-> "undef", num |-> 0, list |-> l]
ROb(ob) == [kind |-> "observer", val |-> "undef", num |-> ob, list |-> <<>>]
RUndefined == RVal("undef")

\* The heap an operation works on, threaded through the calls it makes.
\* ret is what the last inner call returned (an Observer or a Dep);
\* result, notif, warns and threw are the outcome of the API call: the value
\* returned, the Deps whose notify() it called, the warn() calls it made,
\* and whether it ended in a TypeError instead of returning.
\* seen is the data as it was when the call called notify().
Heap == [props |-> props, elems |-> elems, marker |-> marker, obs |-> obs,
         subs |-> subs, depIds |-> depIds, ret |-> 0,
         result |-> RUndefined, notif |-> <<>>, warns |-> 0, threw |-> FALSE,
         seen |-> [props |-> props, elems |-> elems, marker |-> marker]]

\* the data of a heap: the properties, the elements and the __ob__ markers
View(S) == [props |-> S.props, elems |-> S.elems, marker |-> S.marker]

\* hasOwn(obj, key) for a named key
hasOwn(S, obj, key) ==
  obj \in ObjRefs /\ key \in Names /\ S.props[obj][key].has
\* Object.keys(obj), in order
RECURSIVE KeysFrom(_, _, _)
KeysFrom(S, obj, i) ==
  IF i > Len(KeyOrder) THEN <<>>
  ELSE (IF S.props[obj][KeyOrder[i]].has THEN <<KeyOrder[i]>> ELSE <<>>)
       \o KeysFrom(S, obj, i + 1)
ObjectKeys(S, obj) == KeysFrom(S, obj, 1)

\* obj[key] read without a reader: the getter's value, else the data value
GetValue(slot) == IF slot.getter THEN slot.store ELSE slot.val

\* ----------------------------------------------------------------- Dep
\* new Dep(): id = uid++, subs = []; a variant that hands out the newest Dep
\* again
ReusedDep(S) ==
  IF S.subs = <<>> THEN [S EXCEPT !.subs = << <<>> >>, !.ret = 1]
  ELSE [S EXCEPT !.ret = Len(S.subs)]
NewDep(S) == [S EXCEPT !.subs = Append(@, <<>>), !.ret = Len(S.subs) + 1]

\* the list with one more element; a buggy variant pushes twice
PushedTwice(list, sub) == list \o <<sub, sub>>
Pushed(list, sub) == Append(list, sub)
\* Dep.addSub
addSub(S, dep, sub) == [S EXCEPT !.subs[dep] = Pushed(@, sub)]

\* remove(arr, item): splice out the first match
RECURSIVE remove(_, _)
remove(arr, item) ==
  IF arr = <<>> THEN <<>>
  ELSE IF Head(arr) = item THEN Tail(arr)
  ELSE <<Head(arr)>> \o remove(Tail(arr), item)
\* Dep.removeSub
removeSub(S, dep, sub) == [S EXCEPT !.subs[dep] = remove(@, sub)]

\* Watcher.addDep: the Subscriber records the Dep and joins it once
addDep(S, w, dep) ==
  IF dep \in S.depIds[w] THEN S
  ELSE addSub([S EXCEPT !.depIds[w] = @ \cup {dep}], dep, w)

\* Dep.depend, with Dep.target passed as t
depend(S, dep, t) == IF t # 0 THEN addDep(S, t, dep) ELSE S

\* ------------------------------------------------------------- observe
RECURSIVE observe(_, _, _)
RECURSIVE walk(_, _, _)
RECURSIVE observeArray(_, _)
RECURSIVE defineReactive(_, _, _, _, _)

\* the marker test of observe: hasOwn(value, '__ob__') && instanceof Observer
AlwaysUnmarked(S, value) == FALSE
hasObserver(S, value) == S.marker[value] # 0

\* the guard of `new Observer(value)` in observe
ObserveUngated(value) ==
  /\ ~env.ssr
  /\ (isArray(value) \/ isPlainObject(value))
  /\ isExtensible(value)
  /\ ~isVue(value)
canObserve(value) ==
  /\ shouldObserve
  /\ ~env.ssr
  /\ (isArray(value) \/ isPlainObject(value))
  /\ isExtensible(value)
  /\ ~isVue(value)

\* new Observer(value): dep, vmCount, the __ob__ marker, then the walk
NewObserver(S, value) ==
  LET S1 == NewDep(S)
      ob == Len(S.obs) + 1
      S2 == [S1 EXCEPT !.obs = Append(@, [value |-> value, dep |-> S1.ret,
                                          vmCount |-> 0]),
                       !.marker[value] = ob]
      S3 == IF isArray(value) THEN observeArray(S2, S2.elems[value])
            ELSE walk(S2, value, ObjectKeys(S2, value))
  IN [S3 EXCEPT !.ret = ob]

observe(S, value, asRootData) ==
  IF ~isObject(value) \/ isVNode(value) THEN [S EXCEPT !.ret = 0]
  ELSE LET S1 == IF hasObserver(S, value) THEN [S EXCEPT !.ret = S.marker[value]]
                 ELSE IF canObserve(value) THEN NewObserver(S, value)
                 ELSE [S EXCEPT !.ret = 0]
           ob == S1.ret
       IN IF asRootData /\ ob # 0
          THEN [S1 EXCEPT !.obs[ob].vmCount = @ + 1]
          ELSE S1

\* Observer.walk over Object.keys(obj)
walk(S, obj, ks) ==
  IF ks = <<>> THEN S
  ELSE walk(defineReactive(S, obj, Head(ks), FALSE, "undef"), obj, Tail(ks))

\* Observer.observeArray
observeArray(S, items) ==
  IF items = <<>> THEN S
  ELSE observeArray(observe(S, Head(items), FALSE), Tail(items))

\* defineReactive(obj, key, val): withVal is arguments.length > 2.  No call
\* in the source passes customSetter or shallow.
defineReactive(S, obj, key, withVal, val0) ==
  LET S1 == NewDep(S)
      dep == S1.ret
      property == S1.props[obj][key]
      getter == property.has /\ property.getter
      setter == property.has /\ property.setter
      val == IF (~getter \/ setter) /\ ~withVal THEN GetValue(property) ELSE val0
      S2 == IF property.shallow THEN [S1 EXCEPT !.ret = 0]
            ELSE observe(S1, val, FALSE)
  IN IF property.has /\ ~property.configurable THEN S1
     ELSE [S2 EXCEPT !.props[obj][key] =
             [property EXCEPT !.has = TRUE, !.reactive = TRUE, !.val = val,
                              !.childOb = S2.ret, !.dep = dep,
                              !.configurable = TRUE]]

\* ------------------------------------------------- the reactive accessor
RECURSIVE dependArray(_, _, _)
\* dependArray(value), with Dep.target passed as t
NoDependArray(S, items, t) == S
dependArray(S, items, t) ==
  IF items = <<>> THEN S
  ELSE LET e == Head(items)
           S1 == IF isObject(e) /\ S.marker[e] # 0
                 THEN depend(S, S.obs[S.marker[e]].dep, t) ELSE S
           S2 == IF isArray(e) THEN dependArray(S1, S1.elems[e], t) ELSE S1
       IN dependArray(S2, Tail(items), t)

\* reactiveGetter, with Dep.target passed as t
reactiveGetter(S, obj, key, t) ==
  LET slot == S.props[obj][key]
      value == IF slot.getter THEN slot.store ELSE slot.val
      S1 == depend(S, slot.dep, t)
      S2 == IF slot.childOb # 0 THEN depend(S1, S1.obs[slot.childOb].dep, t) ELSE S1
      S3 == IF slot.childOb # 0 /\ isArray(value)
            THEN dependArray(S2, S2.elems[value], t) ELSE S2
  IN [(IF t # 0 THEN S3 ELSE S) EXCEPT !.result = RVal(value)]

\* obj[key] as an expression: the accessor if the property is reactive
GetProp(S, obj, key, t) ==
  LET slot == S.props[obj][key]
  IN IF slot.reactive THEN reactiveGetter(S, obj, key, t)
     ELSE [S EXCEPT !.result = RVal(IF slot.has THEN GetValue(slot) ELSE "undef")]

\* dep.notify() called: the pass itself runs as a frame (see StartPasses)
NotifyNobody(S, dep) == S
notify(S, dep) == [S EXCEPT !.notif = Append(@, dep), !.seen = View(S)]

\* the no-op test of reactiveSetter
OnlyNaNSame(newVal, value) == ~StrictEq(newVal, newVal) /\ ~StrictEq(value, value)
NeverSame(newVal, value) == FALSE
OnlyStrictEq(newVal, value) == newVal = value /\ newVal # "NaN"
SameValue(newVal, value) ==
  StrictEq(newVal, value) \/ (~StrictEq(newVal, newVal) /\ ~StrictEq(value, value))

\* #7981: an accessor property with a getter and no setter
NeverReadOnly(slot) == FALSE
ReadOnly(slot) == slot.getter /\ ~slot.setter

\* childOb = !shallow && observe(newVal) of reactiveSetter; a variant that
\* keeps the child Observer the slot had
NotRecomputed(S, newVal, childOb) == [S EXCEPT !.ret = childOb]
Recomputed(S, newVal, childOb) == observe(S, newVal, FALSE)

\* reactiveSetter(newVal)
reactiveSetter(S, obj, key, newVal) ==
  LET slot == S.props[obj][key]
      value == IF slot.getter THEN slot.store ELSE slot.val
      S1 == IF slot.setter THEN [S EXCEPT !.props[obj][key].store = newVal]
            ELSE [S EXCEPT !.props[obj][key].val = newVal]
      S2 == IF slot.shallow THEN [S1 EXCEPT !.ret = 0]
            ELSE Recomputed(S1, newVal, slot.childOb)
      S3 == [S2 EXCEPT !.props[obj][key].childOb = S2.ret]
  IN IF SameValue(newVal, value) THEN S
     ELSE IF ReadOnly(slot) THEN S
     ELSE notify(S3, slot.dep)

\* obj[key] = val as a statement: the accessor if the property is reactive,
\* else an ordinary assignment (which creates the property when absent)
PutProp(S, obj, key, val) ==
  LET slot == S.props[obj][key]
  IN IF slot.reactive THEN reactiveSetter(S, obj, key, val)
     ELSE IF slot.has /\ slot.getter
          THEN (IF slot.setter THEN [S EXCEPT !.props[obj][key].store = val] ELSE S)
     ELSE [S EXCEPT !.props[obj][key] = [slot EXCEPT !.has = TRUE, !.val = val]]

\* ------------------------------------------------- native array methods
\* String(v) as UTF-16 code units, the key of the default sort order.
\* An array joins its elements with ","; undefined and null join as "".
RECURSIVE ToStr(_, _)
RECURSIVE Join(_, _)
ToStr(S, v) ==
  CASE v = "n1" -> <<49>>
    [] v = "n2" -> <<50>>
    [] v = "NaN" -> <<78, 97, 78>>
    [] v = "undef" -> <<>>
    [] isArray(v) -> Join(S, S.elems[v])
    [] OTHER -> <<91, 111, 98, 106, 101, 99, 116, 32, 79, 98, 106, 101, 99, 116, 93>>
Join(S, items) ==
  IF items = <<>> THEN <<>>
  ELSE IF Len(items) = 1 THEN ToStr(S, items[1])
  ELSE ToStr(S, items[1]) \o <<44>> \o Join(S, Tail(items))

RECURSIVE LexLess(_, _)
LexLess(x, y) ==
  IF y = <<>> THEN FALSE
  ELSE IF x = <<>> THEN TRUE
  ELSE IF Head(x) # Head(y) THEN Head(x) < Head(y)
  ELSE LexLess(Tail(x), Tail(y))

\* the default comparator: undefined sorts last, the rest by String(v)
SortBefore(S, x, y) ==
  IF x = "undef" THEN FALSE
  ELSE IF y = "undef" THEN TRUE
  ELSE LexLess(ToStr(S, x), ToStr(S, y))

\* Array.prototype.sort(): stable, by insertion
RECURSIVE InsertSorted(_, _, _)
InsertSorted(S, sorted, x) ==
  IF sorted = <<>> THEN <<x>>
  ELSE IF SortBefore(S, x, Head(sorted)) THEN <<x>> \o sorted
  ELSE <<Head(sorted)>> \o InsertSorted(S, Tail(sorted), x)
RECURSIVE NativeSort(_, _)
NativeSort(S, items) ==
  IF items = <<>> THEN <<>>
  ELSE InsertSorted(S, NativeSort(S, SubSeq(items, 1, Len(items) - 1)),
                    items[Len(items)])

Reverse(items) == [i \in 1..Len(items) |-> items[Len(items) + 1 - i]]

\* The arguments of an array method call: push / unshift take items,
\* splice takes (start, count, ...items), the others take none.
Args(start, count, items) == [start |-> start, count |-> count, items |-> items]
NoArgs == Args(0, 0, <<>>)

Methods == {"push", "pop", "shift", "unshift", "splice", "sort", "reverse"}

\* original.apply(this, args): the contents afterwards and the value returned
Native(S, method, items, args) ==
  LET n == Len(items)
      from == Min(args.start, n)
      cnt == Min(args.count, n - from)
  IN CASE method = "push" ->
            [elems |-> items \o args.items, result |-> RNum(n + Len(args.items))]
       [] method = "pop" ->
            IF n = 0 THEN [elems |-> items, result |-> RUndefined]
            ELSE [elems |-> SubSeq(items, 1, n - 1), result |-> RVal(items[n])]
       [] method = "shift" ->
            IF n = 0 THEN [elems |-> items, result |-> RUndefined]
            ELSE [elems |-> Tail(items), result |-> RVal(Head(items))]
       [] method = "unshift" ->
            [elems |-> args.items \o items, result |-> RNum(n + Len(args.items))]
       [] method = "splice" ->
            [elems |-> SubSeq(items, 1, from) \o args.items
                       \o SubSeq(items, from + cnt + 1, n),
             result |-> RList(SubSeq(items, from + 1, from + cnt))]
       [] method = "sort" ->
            [elems |-> NativeSort(S, items), result |-> RUndefined]
       [] OTHER ->
            [elems |-> Reverse(items), result |-> RUndefined]

\* sort and reverse return the array itself
NativeResult(S, arr, method, args) ==
  IF method \in {"sort", "reverse"} THEN RVal(arr)
  ELSE Native(S, method, S.elems[arr], args).result

\* ------------------------------------------------ the array interceptor
\* the `inserted` of mutator: the new elements, or undefined (shown as
\* [some |-> FALSE]) for the methods that introduce none
NothingInserted(method, args) == [some |-> FALSE, items |-> <<>>]
Inserted(method, args) ==
  IF method \in {"push", "unshift", "splice"}
  THEN [some |-> TRUE, items |-> args.items]
  ELSE [some |-> FALSE, items |-> <<>>]

\* when mutator notifies: always
NotifyIfChanged(before, after) == before # after
NotifyAlways(before, after) == TRUE

\* what mutator returns
ResultDropped(S, arr, method, args) == RUndefined
MutatorResult(S, arr, method, args) == NativeResult(S, arr, method, args)

\* mutator(...args) of an observed array; a variant that notifies before it
\* applies the native method and observes what it inserted
NotifyThenMutate(S, arr, method, args) ==
  LET result == MutatorResult(S, arr, method, args)
      S1 == notify(S, S.obs[S.marker[arr]].dep)
      S2 == [S1 EXCEPT !.elems[arr] = Native(S, method, S.elems[arr], args).elems]
      inserted == Inserted(method, args)
      S3 == IF inserted.some THEN observeArray(S2, inserted.items) ELSE S2
  IN [S3 EXCEPT !.result = result]
mutator(S, arr, method, args) ==
  LET result == MutatorResult(S, arr, method, args)
      S1 == [S EXCEPT !.elems[arr] = Native(S, method, S.elems[arr], args).elems]
      ob == S1.marker[arr]
      inserted == Inserted(method, args)
      S2 == IF inserted.some THEN observeArray(S1, inserted.items) ELSE S1
      S3 == IF NotifyAlways(S.elems[arr], S1.elems[arr])
            THEN notify(S2, S2.obs[ob].dep) ELSE S2
  IN [S3 EXCEPT !.result = result]

\* arr[method](...args): the interceptor once the array is observed (its
\* prototype is arrayMethods), else the native method
CallNative(S, arr, method, args) ==
  [S EXCEPT !.elems[arr] = Native(S, method, S.elems[arr], args).elems,
            !.result = NativeResult(S, arr, method, args)]
CallMethod(S, arr, method, args) ==
  IF S.marker[arr] # 0 THEN mutator(S, arr, method, args)
  ELSE [S EXCEPT !.elems[arr] = Native(S, method, S.elems[arr], args).elems,
                 !.result = NativeResult(S, arr, method, args)]

\* ------------------------------------------------------- set and del
\* warn(...) in a non-production build
warn(S) == IF env.production THEN S ELSE [S EXCEPT !.warns = @ + 1]
\* a TypeError leaves the call
throw(S) == [S EXCEPT !.threw = TRUE]

\* `key in target && !(key in Object.prototype)` for an object target; no
\* key of Names is a property of Object.prototype
AlwaysIn(S, target, key) == TRUE
keyIn(S, target, key) == hasOwn(S, target, key)

\* target.length = n: a longer array is padded (its holes read undefined)
NoGrow(items, n) == items
SetLength(items, n) ==
  IF n <= Len(items) THEN SubSeq(items, 1, n)
  ELSE items \o [i \in 1..(n - Len(items)) |-> "undef"]

\* whether set / del take the root branch: target._isVue || (ob && ob.vmCount)
NeverRoot(S, target) == FALSE
isRootTarget(S, target) ==
  isVue(target) \/ (S.marker[target] # 0 /\ S.obs[S.marker[target]].vmCount > 0)

\* set(target, key, val)
set(S, target, key, val) ==
  LET S0 == IF isUndefOrPrimitive(target) THEN warn(S) ELSE S
      ob == S0.marker[target]
      grown == [S0 EXCEPT !.elems[target] =
                  SetLength(@, Max(Len(@), ToIndex(key)))]
      added == defineReactive(S0, S0.obs[ob].value, key, TRUE, val)
  IN IF isArray(target) /\ isValidArrayIndex(key)
     THEN [CallMethod(grown, target, "splice", Args(ToIndex(key), 1, <<val>>))
             EXCEPT !.result = RVal(val)]
     ELSE IF ~isObject(target) THEN throw(S0)
     ELSE IF keyIn(S0, target, key)
     THEN [PutProp(S0, target, key, val) EXCEPT !.result = RVal(val)]
     ELSE IF isRootTarget(S0, target) THEN [warn(S0) EXCEPT !.result = RVal(val)]
     ELSE IF ob = 0
     THEN [PutProp(S0, target, key, val) EXCEPT !.result = RVal(val)]
     ELSE [notify(added, added.obs[ob].dep) EXCEPT !.result = RVal(val)]

\* delete target[key]
DeleteProp(S, target, key) == [S EXCEPT !.props[target][key] = NoSlot]

\* del(target, key)
del(S, target, key) ==
  LET S0 == IF isUndefOrPrimitive(target) THEN warn(S) ELSE S
      ob == S0.marker[target]
      S1 == DeleteProp(S0, target, key)
  IN IF isArray(target) /\ isValidArrayIndex(key)
     THEN [CallMethod(S0, target, "splice", Args(ToIndex(key), 1, <<>>))
             EXCEPT !.result = RUndefined]
     ELSE IF target = "undef" THEN throw(S0)
     ELSE IF ~isObject(target) THEN S0
     ELSE IF isRootTarget(S0, target) THEN warn(S0)
     ELSE IF ~hasOwn(S0, target, key) THEN S0
     ELSE IF ~S0.props[target][key].configurable THEN throw(S0)
     ELSE IF ob = 0 THEN S1
     ELSE notify(S1, S1.obs[ob].dep)

\* ------------------------------------------------------------ Dep.notify
\* subs.sort((a, b) => a.id - b.id): stable, ascending by id
RECURSIVE InsertById(_, _)
InsertById(sorted, x) ==
  IF sorted = <<>> THEN <<x>>
  ELSE IF x < Head(sorted) THEN <<x>> \o sorted
  ELSE <<Head(sorted)>> \o InsertById(Tail(sorted), x)
RECURSIVE SortById(_)
SortById(list) ==
  IF list = <<>> THEN <<>>
  ELSE InsertById(SortById(SubSeq(list, 1, Len(list) - 1)), list[Len(list)])

\* whether notify sorts its copy
SortsSubs == ~env.production /\ ~env.async

\* const subs = this.subs.slice(), sorted in a synchronous development build
Unsorted(list) == list
Snapshot(list) == IF SortsSubs THEN SortById(list) ELSE list

\* One notify() pass in progress: subs, i and l are its locals, upd the
\* Subscriber whose update() is running (0 between two calls); start is
\* this.subs at the call and fired the update() calls made so far; settled
\* says that the call changed no data after it called notify().
NewFrame(S, dep) ==
  [dep |-> dep, subs |-> Snapshot(S.subs[dep]), i |-> 1,
   l |-> Len(S.subs[dep]), upd |-> 0, start |-> S.subs[dep], fired |-> <<>>,
   settled |-> S.seen = View(S)]

\* no pass has returned yet
NoFrame ==
  [dep |-> 0, subs |-> <<>>, i |-> 1, l |-> 0, upd |-> 0, start |-> <<>>,
   fired |-> <<>>, settled |-> TRUE]

\* subs[i] of the loop in notify
LiveSubAt(f) == IF f.i <= Len(subs[f.dep]) THEN subs[f.dep][f.i] ELSE 0
SubAt(f) == f.subs[f.i]

\* the passes an API call starts, in call order (at most one per call)
StartPasses(S) ==
  IF S.notif = <<>> THEN <<>> ELSE <<NewFrame(S, S.notif[1])>>

Top == frames[Len(frames)]
\* code runs at the top level or inside an update() callback
Running == IF frames = <<>> THEN TRUE ELSE Top.upd # 0
CanCall == Running /\ calls < limit

\* what an API call leaves behind, made with the passes fs on the call stack
CommitOn(fs, S, op, target, key, val, args, old) ==
  /\ props' = S.props
  /\ elems' = S.elems
  /\ marker' = S.marker
  /\ obs' = S.obs
  /\ subs' = S.subs
  /\ depIds' = S.depIds
  /\ frames' = fs \o StartPasses(S)
  /\ done' = done
  /\ calls' = calls + 1
  /\ limit' = limit
  /\ UNCHANGED <<cache, keys, max, rendered>>
  /\ last' = [op |-> op, target |-> target, key |-> key, val |-> val,
              args |-> args, old |-> old, result |-> S.result,
              notif |-> S.notif, warns |-> S.warns, threw |-> S.threw]

\* what an API call leaves behind
Commit(S, op, target, key, val, args, old) ==
  CommitOn(frames, S, op, target, key, val, args, old)

\* what the call found: the value of the slot and whether the key was an own
\* property, the elements of the array, the Observer of the value, a flag,
\* the number of Observers
NoOld ==
  [val |-> "undef", has |-> FALSE, elems |-> <<>>, flag |-> FALSE, num |-> 0,
   count |-> 0]
OldSlot(slot) == [NoOld EXCEPT !.val = GetValue(slot), !.has = slot.has,
                               !.num = slot.childOb, !.flag = slot.reactive]
OldArr(arr) == [NoOld EXCEPT !.elems = elems[arr], !.num = marker[arr],
                             !.count = Len(obs)]
OldFlag(b) == [NoOld EXCEPT !.flag = b]
\* Dep.target and the height of targetStack before the call
OldReader == [NoOld EXCEPT !.num = DepTarget, !.count = Len(targetStack)]
OldOb(v, b) == [NoOld EXCEPT !.num = IF v \in Refs THEN marker[v] ELSE 0, !.flag = b]

\* ------------------------------------------------------------- actions
\* observe(value, asRootData)
Observe(value, asRootData) ==
  /\ CanCall
  /\ LET S == observe(Heap, value, asRootData)
     IN Commit([S EXCEPT !.result = ROb(S.ret)], "observe", value, "", "undef",
               NoArgs, OldOb(value, asRootData))
  /\ UNCHANGED <<DepTarget, targetStack, shouldObserve, env>>

\* toggleObserving(value)
toggleObserving(value) ==
  /\ CanCall
  /\ shouldObserve' = value
  /\ Commit(Heap, "toggle", "undef", "", "undef", NoArgs, OldFlag(value))
  /\ UNCHANGED <<DepTarget, targetStack, env>>

\* pushTarget(target); a variant that skips Dep.target for no reader
PushIgnoresNone(target) ==
  /\ CanCall
  /\ targetStack' = Append(targetStack, target)
  /\ DepTarget' = IF target = 0 THEN DepTarget ELSE target
  /\ Commit(Heap, "pushTarget", "undef", "", "undef", Args(target, 0, <<>>),
            OldReader)
  /\ UNCHANGED <<shouldObserve, env>>
pushTarget(target) ==
  /\ CanCall
  /\ targetStack' = Append(targetStack, target)
  /\ DepTarget' = target
  /\ Commit(Heap, "pushTarget", "undef", "", "undef", Args(target, 0, <<>>),
            OldReader)
  /\ UNCHANGED <<shouldObserve, env>>

\* popTarget(): pop() of an empty stack leaves it empty; a variant that
\* leaves Dep.target as it was
PopKeepsTarget ==
  /\ CanCall
  /\ targetStack' = IF targetStack = <<>> THEN <<>>
                    ELSE SubSeq(targetStack, 1, Len(targetStack) - 1)
  /\ DepTarget' = DepTarget
  /\ Commit(Heap, "popTarget", "undef", "", "undef", NoArgs, OldReader)
  /\ UNCHANGED <<shouldObserve, env>>
popTarget ==
  /\ CanCall
  /\ targetStack' = IF targetStack = <<>> THEN <<>>
                    ELSE SubSeq(targetStack, 1, Len(targetStack) - 1)
  /\ DepTarget' = IF Len(targetStack') = 0 THEN 0
                  ELSE targetStack'[Len(targetStack')]
  /\ Commit(Heap, "popTarget", "undef", "", "undef", NoArgs, OldReader)
  /\ UNCHANGED <<shouldObserve, env>>

\* a read of obj[key]
Read(obj, key) ==
  /\ CanCall
  /\ Commit(GetProp(Heap, obj, key, DepTarget), "read", obj, key, "undef",
            Args(DepTarget, 0, <<>>),
            OldFlag(IF DepTarget # 0 /\ props[obj][key].reactive
                    THEN props[obj][key].dep \in depIds[DepTarget] ELSE FALSE))
  /\ UNCHANGED <<DepTarget, targetStack, shouldObserve, env>>

\* the assignment obj[key] = val
Write(obj, key, val) ==
  /\ CanCall
  /\ Commit(PutProp(Heap, obj, key, val), "write", obj, key, val, NoArgs,
            OldSlot(props[obj][key]))
  /\ UNCHANGED <<DepTarget, targetStack, shouldObserve, env>>

\* arr[method](...args)
Method(arr, method, args) ==
  /\ CanCall
  /\ Commit(CallMethod(Heap, arr, method, args), method, arr, "", "undef", args,
            OldArr(arr))
  /\ UNCHANGED <<DepTarget, targetStack, shouldObserve, env>>

\* set(target, key, val)
Set(target, key, val) ==
  /\ CanCall
  /\ Commit(set(Heap, target, key, val), "set", target, key, val, NoArgs,
            IF isArray(target) THEN OldArr(target)
            ELSE IF target \in ObjRefs THEN OldSlot(props[target][key])
            ELSE NoOld)
  /\ UNCHANGED <<DepTarget, targetStack, shouldObserve, env>>

\* del(target, key)
Del(target, key) ==
  /\ CanCall
  /\ Commit(del(Heap, target, key), "del", target, key, "undef", NoArgs,
            IF isArray(target) THEN OldArr(target)
            ELSE IF target \in ObjRefs THEN OldSlot(props[target][key])
            ELSE NoOld)
  /\ UNCHANGED <<DepTarget, targetStack, shouldObserve, env>>

\* dep.addSub(sub), called by a Subscriber's owner
AddSub(dep, sub) ==
  /\ CanCall
  /\ dep \in 1..Len(subs)
  /\ Commit(addSub(Heap, dep, sub), "addSub", "undef", "", "undef",
            Args(dep, sub, <<>>), NoOld)
  /\ UNCHANGED <<DepTarget, targetStack, shouldObserve, env>>

\* dep.removeSub(sub), called by a Subscriber's owner
RemoveSub(dep, sub) ==
  /\ CanCall
  /\ dep \in 1..Len(subs)
  /\ Commit(removeSub(Heap, dep, sub), "removeSub", "undef", "", "undef",
            Args(dep, sub, <<>>), NoOld)
  /\ UNCHANGED <<DepTarget, targetStack, shouldObserve, env>>

\* dep.notify(), called directly
Notify(dep) ==
  /\ CanCall
  /\ dep \in 1..Len(subs)
  /\ Commit(notify(Heap, dep), "notify", "undef", "", "undef", Args(dep, 0, <<>>),
            NoOld)
  /\ UNCHANGED <<DepTarget, targetStack, shouldObserve, env>>

\* notify: subs[i].update() is called
CallUpdate ==
  /\ frames # <<>>
  /\ Top.upd = 0
  /\ Top.i <= Top.l
  /\ frames' = [frames EXCEPT ![Len(frames)] =
                  [Top EXCEPT !.upd = SubAt(Top), !.fired = Append(@, SubAt(Top)),
                              !.i = @ + 1]]
  /\ UNCHANGED <<props, elems, marker, obs, subs, depIds, DepTarget, targetStack,
                 shouldObserve, env, done, last, calls, limit, cache, keys,
                 max, rendered>>

\* update() returns to the loop of notify
UpdateReturns ==
  /\ frames # <<>>
  /\ Top.upd # 0
  /\ frames' = [frames EXCEPT ![Len(frames)].upd = 0]
  /\ UNCHANGED <<props, elems, marker, obs, subs, depIds, DepTarget, targetStack,
                 shouldObserve, env, done, last, calls, limit, cache, keys,
                 max, rendered>>

\* the loop of notify ends and the call that notified returns
NotifyReturns ==
  /\ frames # <<>>
  /\ Top.upd = 0
  /\ Top.i > Top.l
  /\ frames' = SubSeq(frames, 1, Len(frames) - 1)
  /\ done' = Top
  /\ UNCHANGED <<props, elems, marker, obs, subs, depIds, DepTarget, targetStack,
                 shouldObserve, env, last, calls, limit, cache, keys, max,
                 rendered>>

\* ----------------------------------------------------------- keep-alive
\* the keys of the components rendered inside <keep-alive>
CacheKeys == {"k1", "k2", "k3"}

\* created(): this.cache = Object.create(null), this.keys = []
NoCache == [k \in CacheKeys |-> 0]
\* no render yet; used[k] is the render that last inserted or hit k
NoRender ==
  [key |-> "none", hit |-> FALSE, evicted |-> "none", clock |-> 0,
   before |-> 0, used |-> [k \in CacheKeys |-> 0]]

\* no keep-alive component is in use
NoKeepAlive ==
  /\ cache = NoCache
  /\ keys = <<>>
  /\ max = 0
  /\ rendered = NoRender

\* pruneCacheEntry(cache, key, keys): cache[key] = null, remove(keys, key);
\* the $destroy() of the cached instance touches neither
pruneCacheEntry(C, key) ==
  [cache |-> [C.cache EXCEPT ![key] = 0], keys |-> remove(C.keys, key)]

\* a cache hit makes the key the freshest: remove(keys, key), keys.push(key)
NotRefreshed(list, key) == list
Refreshed(list, key) == Append(remove(list, key), key)

\* the values of parseInt(this.max): not set, a negative number, 1 or 2
MaxValues == {0 - 1, 0, 1, 2}

\* the cache after render() of the component with this key
RenderCache(key) ==
  IF cache[key] # 0
  THEN [cache |-> cache, keys |-> Refreshed(keys, key)]
  ELSE LET C == [cache |-> [cache EXCEPT ![key] = rendered.clock + 1],
                 keys |-> Append(keys, key)]
       IN IF max # 0 /\ Len(C.keys) > max
          THEN pruneCacheEntry(C, C.keys[1])
          ELSE C

\* render() of a component that passes include / exclude
render(key) ==
  /\ rendered.clock < MaxRenders
  /\ LET C == RenderCache(key)
     IN /\ cache' = C.cache
        /\ keys' = C.keys
        /\ rendered' =
             [key |-> key, hit |-> cache[key] # 0,
              evicted |-> IF cache[key] = 0 /\ max # 0 /\ Len(keys) + 1 > max
                          THEN Append(keys, key)[1] ELSE "none",
              clock |-> rendered.clock + 1,
              before |-> Len(keys),
              used |-> [rendered.used EXCEPT ![key] = rendered.clock + 1]]
  /\ UNCHANGED <<props, elems, marker, obs, subs, depIds, DepTarget, targetStack,
                 shouldObserve, env, frames, done, last, calls, limit, max>>

\* the parent renders <keep-alive> with another max; nothing watches max
setMax(m) ==
  /\ m # max
  /\ max' = m
  /\ rendered' = [rendered EXCEPT !.key = "none", !.hit = FALSE,
                                  !.evicted = "none"]
  /\ UNCHANGED <<props, elems, marker, obs, subs, depIds, DepTarget, targetStack,
                 shouldObserve, env, frames, done, last, calls, limit, cache,
                 keys>>

\* the loop of pruneCache over the cached keys whose name the filter rejects
RECURSIVE pruneEach(_, _)
pruneEach(C, rejected) ==
  IF rejected = {} THEN C
  ELSE LET key == CHOOSE k \in rejected : TRUE
       IN pruneEach(pruneCacheEntry(C, key), rejected \ {key})

\* pruneCache(this, filter) when include / exclude change: the entries whose
\* component name no longer matches are pruned
pruneCache(rejected) ==
  /\ rejected # {}
  /\ \A k \in rejected : cache[k] # 0
  /\ LET C == pruneEach([cache |-> cache, keys |-> keys], rejected)
     IN cache' = C.cache /\ keys' = C.keys
  /\ rendered' = [rendered EXCEPT !.key = "none", !.hit = FALSE,
                                  !.evicted = "none"]
  /\ UNCHANGED <<props, elems, marker, obs, subs, depIds, DepTarget, targetStack,
                 shouldObserve, env, frames, done, last, calls, limit, max>>

\* ------------------------------------------------------- initial states
\* the builds and configurations: a development build with the scheduler
\* (the default), one with config.async off, a production build with
\* config.async off, and server rendering
Env(p, a, s) == [production |-> p, async |-> a, ssr |-> s]
Development == Env(FALSE, TRUE, FALSE)
Production == Env(TRUE, TRUE, FALSE)
DevelopmentSync == Env(FALSE, FALSE, FALSE)
ProductionSync == Env(TRUE, FALSE, FALSE)
ServerRendering == Env(FALSE, TRUE, TRUE)

NoProps == [k \in Names |-> NoSlot]
\* the data the callers start from
FlatData ==
  [props |-> [o1 |-> [NoProps EXCEPT !["a"] = DataSlot("n1")], o2 |-> NoProps],
   elems |-> [a1 |-> <<>>, a2 |-> <<>>]]
NestedData ==
  [props |-> [o1 |-> [a |-> DataSlot("n1"), b |-> DataSlot("o2")],
              o2 |-> [NoProps EXCEPT !["a"] = DataSlot("NaN")]],
   elems |-> [a1 |-> <<"n1", "n2", "o2", "a2">>, a2 |-> <<"n2">>]]
DataInputs == {FlatData, NestedData}

InitWith(data, e) ==
  /\ limit = MaxCalls
  /\ props = data.props
  /\ elems = data.elems
  /\ marker = [r \in Refs |-> 0]
  /\ obs = <<>>
  /\ subs = <<>>
  /\ depIds = [w \in Subscribers |-> {}]
  /\ DepTarget = 0
  /\ targetStack = <<>>
  /\ shouldObserve = TRUE
  /\ env = e
  /\ frames = <<>>
  /\ done = NoFrame
  /\ calls = 0
  /\ NoKeepAlive
  /\ last = [op |-> "none", target |-> "undef", key |-> "", val |-> "undef",
             args |-> NoArgs, old |-> NoOld, result |-> RUndefined,
             notif |-> <<>>, warns |-> 0, threw |-> FALSE]

Init ==
  \/ \E data \in DataInputs : InitWith(data, Development)
  \/ \E e \in {Production, ServerRendering} : InitWith(NestedData, e)

\* ----------------------------------------------------- the callers' inputs
\* what the callers observe: root data is a plain object
ObserveInputs ==
  {<<"o1", TRUE>>, <<"o1", FALSE>>, <<"o2", FALSE>>, <<"a1", FALSE>>,
   <<"vn", FALSE>>, <<"vm", FALSE>>, <<"fz", FALSE>>, <<"n1", FALSE>>}
WriteVals == {"n2", "o2", "a1"}
ElemVals == {"n1", "o2"}
MethodInputs ==
  {<<"push", Args(0, 0, <<v>>)>> : v \in ElemVals \cup {"fz"}}
  \cup {<<"unshift", Args(0, 0, <<"o2">>)>>}
  \cup {<<m, NoArgs>> : m \in {"pop", "shift", "sort", "reverse"}}
  \cup {<<"splice", Args(1, c, it)>> : c \in 0..1, it \in {<<>>, <<"o2">>}}
SetInputs ==
  {<<o, k, v>> : o \in ObjRefs, k \in Names, v \in {"n2", "o2"}}
  \cup {<<"a1", k, "o2">> : k \in {"1", Digits[MaxIndex + 1]}}
  \cup {<<t, "a", "n1">> : t \in {"vm", "undef", "n1"}}
DelInputs ==
  {<<o, k>> : o \in ObjRefs, k \in Names}
  \cup {<<"a1", k>> : k \in {"2", Digits[MaxIndex + 1], "a"}}
  \cup {<<t, "a">> : t \in {"vm", "undef", "n1"}}

Next ==
  \/ \E in \in ObserveInputs : Observe(in[1], in[2])
  \/ \E b \in BOOLEAN : toggleObserving(b)
  \/ \E k \in Names : Read("o1", k)
  \/ \E k \in Names, v \in WriteVals : Write("o1", k, v)
  \/ \E in \in MethodInputs : Method("a1", in[1], in[2])
  \/ \E in \in SetInputs : Set(in[1], in[2], in[3])
  \/ \E in \in DelInputs : Del(in[1], in[2])
  \/ \E d \in 1..Min(Len(subs), 3) : AddSub(d, 1)
  \/ \E d \in 1..Min(Len(subs), 3) : RemoveSub(d, 1)
  \/ CallUpdate
  \/ UpdateReturns
  \/ NotifyReturns

Spec == Init /\ [][Next]_vars

\* ------------------------------------------- one Dep, exercised directly
\* after `new Dep()`: the Dep has no subscriber yet
InitDep ==
  /\ \E e \in {Development, Production, DevelopmentSync, ProductionSync} : env = e
  /\ limit = MaxDepCalls
  /\ props = FlatData.props
  /\ elems = FlatData.elems
  /\ marker = [r \in Refs |-> 0]
  /\ obs = <<>>
  /\ subs = << <<>> >>
  /\ depIds = [w \in Subscribers |-> {}]
  /\ DepTarget = 0
  /\ targetStack = <<>>
  /\ shouldObserve = TRUE
  /\ frames = <<>>
  /\ done = NoFrame
  /\ calls = 0
  /\ NoKeepAlive
  /\ last = [op |-> "none", target |-> "undef", key |-> "", val |-> "undef",
             args |-> NoArgs, old |-> NoOld, result |-> RUndefined,
             notif |-> <<>>, warns |-> 0, threw |-> FALSE]

NextDep ==
  \/ \E w \in Subscribers : AddSub(1, w)
  \/ \E w \in Subscribers : RemoveSub(1, w)
  \/ Notify(1)
  \/ CallUpdate
  \/ UpdateReturns
  \/ NotifyReturns

SpecDep == InitDep /\ [][NextDep]_vars

\* ------------------------------------ one observed object, read and written
RootData ==
  [props |-> [o1 |-> [a |-> DataSlot("n1"), b |-> DataSlot("NaN")],
              o2 |-> NoProps],
   elems |-> [a1 |-> <<>>, a2 |-> <<>>]]

\* the heap of some data before anything is observed
RawHeap(data) ==
  [props |-> data.props, elems |-> data.elems, marker |-> [r \in Refs |-> 0],
   obs |-> <<>>, subs |-> <<>>, depIds |-> [w \in Subscribers |-> {}], ret |-> 0,
   result |-> RUndefined, notif |-> <<>>, warns |-> 0, threw |-> FALSE,
   seen |-> [props |-> data.props, elems |-> data.elems,
             marker |-> [r \in Refs |-> 0]]]

\* after observe(o1, asRootData) of fresh data
InitProp ==
  /\ \E e \in {Development, DevelopmentSync} : env = e
  /\ shouldObserve = TRUE
  /\ limit = MaxPropCalls
  /\ \E r \in BOOLEAN :
       LET S == observe(RawHeap(RootData), "o1", r)
       IN /\ props = S.props
          /\ elems = S.elems
          /\ marker = S.marker
          /\ obs = S.obs
          /\ subs = S.subs
          /\ depIds = S.depIds
          /\ last = [op |-> "observe", target |-> "o1", key |-> "",
                     val |-> "undef", args |-> NoArgs,
                     old |-> [NoOld EXCEPT !.flag = r], result |-> ROb(S.ret),
                     notif |-> <<>>, warns |-> 0, threw |-> FALSE]
  /\ DepTarget = 0
  /\ targetStack = <<>>
  /\ frames = <<>>
  /\ done = NoFrame
  /\ calls = 0
  /\ NoKeepAlive

NextProp ==
  \/ \E w \in {1, 2} : pushTarget(w)
  \/ popTarget
  \/ \E k \in Names : Read("o1", k)
  \/ \E k \in Names, v \in {"n2", "NaN", "o2"} : Write("o1", k, v)
  \/ CallUpdate
  \/ UpdateReturns
  \/ NotifyReturns

SpecProp == InitProp /\ [][NextProp]_vars

\* ------------------------------ observed containers, changed by set and del
SetData ==
  [props |-> [o1 |-> [NoProps EXCEPT !["a"] = DataSlot("n1")],
              o2 |-> [NoProps EXCEPT !["a"] = DataSlot("NaN")]],
   elems |-> [a1 |-> <<"n1", "n2">>, a2 |-> <<>>]]

\* after observe(o1, asRootData), observe(o2) and observe(a1, asRootData)
InitSet ==
  /\ \E e \in {Development, Production} : env = e
  /\ shouldObserve = TRUE
  /\ limit = MaxSetCalls
  /\ \E r \in BOOLEAN :
       LET S == observe(observe(observe(RawHeap(SetData), "o1", r), "o2", FALSE),
                        "a1", r)
       IN /\ props = S.props
          /\ elems = S.elems
          /\ marker = S.marker
          /\ obs = S.obs
          /\ subs = S.subs
          /\ depIds = S.depIds
          /\ last = [op |-> "observe", target |-> "a1", key |-> "",
                     val |-> "undef", args |-> NoArgs,
                     old |-> [NoOld EXCEPT !.flag = r], result |-> ROb(S.ret),
                     notif |-> <<>>, warns |-> 0, threw |-> FALSE]
  /\ DepTarget = 0
  /\ targetStack = <<>>
  /\ frames = <<>>
  /\ done = NoFrame
  /\ calls = 0
  /\ NoKeepAlive

\* the arguments of set and del in this specification
SetCalls ==
  {<<o, k, v>> : o \in ObjRefs, k \in Names, v \in {"n2", "o2"}}
  \cup {<<"a1", k, "n2">> : k \in {"0", "3"}}
DelCalls ==
  {<<o, k>> : o \in ObjRefs, k \in Names} \cup {<<"a1", k>> : k \in {"0", "3"}}

NextSet ==
  \/ \E t \in {0, 1} : pushTarget(t)
  \/ \E o \in ObjRefs, k \in Names : Read(o, k)
  \/ \E in \in SetCalls : Set(in[1], in[2], in[3])
  \/ \E in \in DelCalls : Del(in[1], in[2])
  \/ CallUpdate
  \/ UpdateReturns
  \/ NotifyReturns

SpecSet == InitSet /\ [][NextSet]_vars

\* ------------------------- an empty observed object that gains a key by set
AddData ==
  [props |-> [o1 |-> [NoProps EXCEPT !["b"] = DataSlot("o2")], o2 |-> NoProps],
   elems |-> [a1 |-> <<>>, a2 |-> <<>>]]

\* after observe(o1, true): o2 = {} is observed as the value of o1.b
InitAdd ==
  /\ \E e \in {Development, DevelopmentSync} : env = e
  /\ shouldObserve = TRUE
  /\ limit = MaxAddCalls
  /\ LET S == observe(RawHeap(AddData), "o1", TRUE)
     IN /\ props = S.props
        /\ elems = S.elems
        /\ marker = S.marker
        /\ obs = S.obs
        /\ subs = S.subs
        /\ depIds = S.depIds
        /\ last = [op |-> "observe", target |-> "o1", key |-> "",
                   val |-> "undef", args |-> NoArgs,
                   old |-> [NoOld EXCEPT !.flag = TRUE], result |-> ROb(S.ret),
                   notif |-> <<>>, warns |-> 0, threw |-> FALSE]
  /\ DepTarget = 0
  /\ targetStack = <<>>
  /\ frames = <<>>
  /\ done = NoFrame
  /\ calls = 0
  /\ NoKeepAlive

NextAdd ==
  \/ \E w \in {1, 2} : pushTarget(w)
  \/ popTarget
  \/ Read("o1", "b")
  \/ Read("o2", "a")
  \/ Set("o2", "a", "n1")
  \/ \E v \in {"n1", "n2"} : Write("o2", "a", v)
  \/ CallUpdate
  \/ UpdateReturns
  \/ NotifyReturns

SpecAdd == InitAdd /\ [][NextAdd]_vars

\* ------------------------------------- one observed array, changed by set
ArrData ==
  [props |-> [o1 |-> NoProps, o2 |-> [NoProps EXCEPT !["a"] = DataSlot("n1")]],
   elems |-> [a1 |-> <<"n1", "n2">>, a2 |-> <<>>]]

\* after observe(a1)
InitArr ==
  /\ \E e \in {Development, Production} : env = e
  /\ shouldObserve = TRUE
  /\ limit = MaxArrCalls
  /\ LET S == observe(RawHeap(ArrData), "a1", FALSE)
     IN /\ props = S.props
        /\ elems = S.elems
        /\ marker = S.marker
        /\ obs = S.obs
        /\ subs = S.subs
        /\ depIds = S.depIds
        /\ last = [op |-> "observe", target |-> "a1", key |-> "",
                   val |-> "undef", args |-> NoArgs,
                   old |-> NoOld, result |-> ROb(S.ret),
                   notif |-> <<>>, warns |-> 0, threw |-> FALSE]
  /\ DepTarget = 0
  /\ targetStack = <<>>
  /\ frames = <<>>
  /\ done = NoFrame
  /\ calls = 0
  /\ NoKeepAlive

NextArr ==
  \/ \E b \in BOOLEAN : toggleObserving(b)
  \/ \E k \in IndexKeys, v \in {"n2", "o2", "fz"} : Set("a1", k, v)
  \/ AddSub(1, 1)
  \/ CallUpdate
  \/ UpdateReturns
  \/ NotifyReturns

SpecArr == InitArr /\ [][NextArr]_vars

\* --------------------- an observed object read by Subscribers in evaluation
\* o1.a holds an array with a nested array, o1.b is an accessor property of
\* the caller with a getter and no setter
ReadData ==
  [props |-> [o1 |-> [a |-> DataSlot("a1"), b |-> AccessorSlot(TRUE, FALSE, "o2")],
              o2 |-> [NoProps EXCEPT !["a"] = DataSlot("n1")]],
   elems |-> [a1 |-> <<"n1", "o2", "a2">>, a2 |-> <<"o2">>]]

\* after observe(o1)
InitRead ==
  /\ \E e \in {Development, Production} : env = e
  /\ shouldObserve = TRUE
  /\ limit = MaxReadCalls
  /\ LET S == observe(RawHeap(ReadData), "o1", FALSE)
     IN /\ props = S.props
        /\ elems = S.elems
        /\ marker = S.marker
        /\ obs = S.obs
        /\ subs = S.subs
        /\ depIds = S.depIds
        /\ last = [op |-> "observe", target |-> "o1", key |-> "",
                   val |-> "undef", args |-> NoArgs,
                   old |-> NoOld, result |-> ROb(S.ret),
                   notif |-> <<>>, warns |-> 0, threw |-> FALSE]
  /\ DepTarget = 0
  /\ targetStack = <<>>
  /\ frames = <<>>
  /\ done = NoFrame
  /\ calls = 0
  /\ NoKeepAlive

NextRead ==
  \/ \E t \in {0, 1, 2} : pushTarget(t)
  \/ popTarget
  \/ \E k \in Names : Read("o1", k)
  \/ \E k \in Names, v \in {"n2", "o2"} : Write("o1", k, v)
  \/ CallUpdate
  \/ UpdateReturns
  \/ NotifyReturns

SpecRead == InitRead /\ [][NextRead]_vars

\* ------------------- observed containers that receive unobserved containers
GateData ==
  [props |-> [o1 |-> [NoProps EXCEPT !["a"] = DataSlot("n1")],
              o2 |-> [NoProps EXCEPT !["a"] = DataSlot("n2")]],
   elems |-> [a1 |-> <<"n1">>, a2 |-> <<>>]]

\* after observe(o1) and observe(a1): o2 and a2 carry no Observer yet
InitGate ==
  /\ \E e \in {Development, Production} : env = e
  /\ shouldObserve = TRUE
  /\ limit = MaxGateCalls
  /\ LET S == observe(observe(RawHeap(GateData), "o1", FALSE), "a1", FALSE)
     IN /\ props = S.props
        /\ elems = S.elems
        /\ marker = S.marker
        /\ obs = S.obs
        /\ subs = S.subs
        /\ depIds = S.depIds
        /\ last = [op |-> "observe", target |-> "a1", key |-> "",
                   val |-> "undef", args |-> NoArgs,
                   old |-> NoOld, result |-> ROb(S.ret),
                   notif |-> <<>>, warns |-> 0, threw |-> FALSE]
  /\ DepTarget = 0
  /\ targetStack = <<>>
  /\ frames = <<>>
  /\ done = NoFrame
  /\ calls = 0
  /\ NoKeepAlive

\* the calls that hand a container to observe
GateMethods ==
  {<<"push", Args(0, 0, <<"o2">>)>>, <<"unshift", Args(0, 0, <<"a2">>)>>,
   <<"splice", Args(0, 1, <<"o2">>)>>}
GateSets == {<<"o1", "a", "a2">>, <<"o1", "b", "o2">>, <<"a1", "0", "o2">>}

NextGate ==
  \/ \E b \in BOOLEAN : toggleObserving(b)
  \/ \E v \in {"o1", "o2", "a2"}, r \in BOOLEAN : Observe(v, r)
  \/ \E v \in {"o2", "a2"} : Write("o1", "a", v)
  \/ \E in \in GateSets : Set(in[1], in[2], in[3])
  \/ \E in \in GateMethods : Method("a1", in[1], in[2])
  \/ AddSub(1, 1)
  \/ CallUpdate
  \/ UpdateReturns
  \/ NotifyReturns

SpecGate == InitGate /\ [][NextGate]_vars

\* ------------------------ an observed graph that grows by writes and calls
\* o1.a is a data property, o1.b an accessor property of the caller with a
\* getter and no setter that returns o2; o2.a is an accessor property with
\* a getter and a setter over one stored value
GraphData ==
  [props |-> [o1 |-> [a |-> DataSlot("n1"), b |-> AccessorSlot(TRUE, FALSE, "o2")],
              o2 |-> [NoProps EXCEPT !["a"] = AccessorSlot(TRUE, TRUE, "n1")]],
   elems |-> [a1 |-> <<"n1">>, a2 |-> <<"o2">>]]

\* after observe(o1) and observe(a1): o2 and a2 carry no Observer yet
InitGraph ==
  /\ \E e \in {Development, Production} : env = e
  /\ shouldObserve = TRUE
  /\ limit = MaxGraphCalls
  /\ LET S == observe(observe(RawHeap(GraphData), "o1", FALSE), "a1", FALSE)
     IN /\ props = S.props
        /\ elems = S.elems
        /\ marker = S.marker
        /\ obs = S.obs
        /\ subs = S.subs
        /\ depIds = S.depIds
        /\ last = [op |-> "observe", target |-> "a1", key |-> "",
                   val |-> "undef", args |-> NoArgs,
                   old |-> NoOld, result |-> ROb(S.ret),
                   notif |-> <<>>, warns |-> 0, threw |-> FALSE]
  /\ DepTarget = 0
  /\ targetStack = <<>>
  /\ frames = <<>>
  /\ done = NoFrame
  /\ calls = 0
  /\ NoKeepAlive

\* the intercepted calls and the set calls of this specification
GraphMethods ==
  {<<"push", Args(0, 0, <<v>>)>> : v \in {"o2", "a2"}}
  \cup {<<"unshift", Args(0, 0, <<"a2">>)>>, <<"splice", Args(0, 1, <<"o2">>)>>,
        <<"pop", NoArgs>>, <<"reverse", NoArgs>>}
GraphSets ==
  {<<"o1", k, v>> : k \in Names, v \in {"o2", "a2"}}
  \cup {<<"o2", k, v>> : k \in Names, v \in {"n2", "a2"}}
  \cup {<<"a1", k, "o2">> : k \in {"0", "2"}}

NextGraph ==
  \/ \E k \in Names, v \in {"n2", "o2", "a2"} : Write("o1", k, v)
  \/ \E v \in {"n2", "a2"} : Write("o2", "a", v)
  \/ \E in \in GraphSets : Set(in[1], in[2], in[3])
  \/ \E in \in GraphMethods : Method("a1", in[1], in[2])
  \/ \E d \in 1..Len(subs), w \in {1, 2} : AddSub(d, w)
  \/ CallUpdate
  \/ UpdateReturns
  \/ NotifyReturns

SpecGraph == InitGraph /\ [][NextGraph]_vars

\* ------------------------- Subscribers whose update() writes the slot back
\* update() of Subscriber 1 writes the number 2 to o1.a, update() of
\* Subscriber 2 writes NaN to it, update() of Subscriber 3 writes nothing
WritesBack(w) ==
  CASE w = 1 -> "n2"
    [] w = 2 -> "NaN"
    [] OTHER -> "none"

\* the Subscribers of the Dep of o1.a, in the order they subscribed
ConvLists ==
  {<<1>>, <<2>>, <<3>>, <<1, 3>>, <<3, 1>>, <<2, 3>>, <<1, 2>>, <<2, 1>>,
   <<3, 1, 2>>}

\* the Subscribers of list join dep, one after the other
RECURSIVE JoinAll(_, _, _)
JoinAll(S, dep, list) ==
  IF list = <<>> THEN S
  ELSE JoinAll(addDep(S, Head(list), dep), dep, Tail(list))

\* after observe(o1) and the first evaluation of the Subscribers, which
\* read o1.a
InitConv ==
  /\ \E e \in {Development, DevelopmentSync} : env = e
  /\ shouldObserve = TRUE
  /\ limit = MaxConvCalls
  /\ \E list \in ConvLists :
       LET S0 == observe(RawHeap(RootData), "o1", FALSE)
           S == JoinAll(S0, S0.props["o1"]["a"].dep, list)
       IN /\ props = S.props
          /\ elems = S.elems
          /\ marker = S.marker
          /\ obs = S.obs
          /\ subs = S.subs
          /\ depIds = S.depIds
          /\ last = [op |-> "observe", target |-> "o1", key |-> "",
                     val |-> "undef", args |-> NoArgs,
                     old |-> NoOld, result |-> ROb(S0.ret),
                     notif |-> <<>>, warns |-> 0, threw |-> FALSE]
  /\ DepTarget = 0
  /\ targetStack = <<>>
  /\ frames = <<>>
  /\ done = NoFrame
  /\ calls = 0
  /\ NoKeepAlive

\* the Subscriber whose update() notify calls next writes a value back
NextWritesBack ==
  IF frames = <<>> THEN FALSE
  ELSE Top.upd = 0 /\ Top.i <= Top.l /\ WritesBack(SubAt(Top)) # "none"

\* the one write of the surrounding code
FirstWrite(v) == calls = 0 /\ Write("o1", "a", v)

\* notify calls subs[i].update(), which writes its value to o1.a; update()
\* returns once the write has returned
UpdateWritesBack ==
  /\ NextWritesBack
  /\ calls < limit
  /\ CommitOn([frames EXCEPT ![Len(frames)] =
                 [Top EXCEPT !.upd = SubAt(Top), !.fired = Append(@, SubAt(Top)),
                             !.i = @ + 1]],
              PutProp(Heap, "o1", "a", WritesBack(SubAt(Top))), "write", "o1", "a",
              WritesBack(SubAt(Top)), NoArgs, OldSlot(props["o1"]["a"]))
  /\ UNCHANGED <<DepTarget, targetStack, shouldObserve, env>>

\* notify calls the update() of a Subscriber that writes nothing
UpdateWritesNothing == ~NextWritesBack /\ CallUpdate

\* what runs once the write has been made: the passes on the call stack
ConvSteps ==
  \/ UpdateWritesBack
  \/ UpdateWritesNothing
  \/ UpdateReturns
  \/ NotifyReturns

NextConv ==
  \/ \E v \in {"n1", "n2", "NaN", "o2"} : FirstWrite(v)
  \/ ConvSteps

SpecConv == InitConv /\ [][NextConv]_vars
\* a call that has begun runs on: JavaScript runs a call stack to its end
SpecConvFair == SpecConv /\ WF_vars(ConvSteps)

\* ------------------------------------------------ a keep-alive component
\* after created(), with any max
InitKeep ==
  /\ cache = NoCache
  /\ keys = <<>>
  /\ max \in MaxValues
  /\ rendered = NoRender
  /\ env = Development
  /\ shouldObserve = TRUE
  /\ limit = 0
  /\ props = FlatData.props
  /\ elems = FlatData.elems
  /\ marker = [r \in Refs |-> 0]
  /\ obs = <<>>
  /\ subs = <<>>
  /\ depIds = [w \in Subscribers |-> {}]
  /\ DepTarget = 0
  /\ targetStack = <<>>
  /\ frames = <<>>
  /\ done = NoFrame
  /\ calls = 0
  /\ last = [op |-> "none", target |-> "undef", key |-> "", val |-> "undef",
             args |-> NoArgs, old |-> NoOld, result |-> RUndefined,
             notif |-> <<>>, warns |-> 0, threw |-> FALSE]

NextKeep ==
  \/ \E k \in CacheKeys : render(k)
  \/ \E rejected \in SUBSET CacheKeys : pruneCache(rejected)
  \/ \E m \in MaxValues : setMax(m)

SpecKeep == InitKeep /\ [][NextKeep]_vars

\* ------------------------------------------------------------------ C1
\* a container observe accepts while observation is on
Eligible(x) == x \in ObjRefs \cup ArrRefs
ObservationOn == shouldObserve /\ ~env.ssr

\* C1: a value carries at most one Observer, whose value field is the value
\* whose marker points to it, and observe of an eligible container returns
\* that Observer: the one the value already carried, if it carried one.
C1_OneObserverPerValue ==
  /\ \A i \in 1..Len(obs) : marker[obs[i].value] = i
  /\ \A r \in Refs : marker[r] # 0 =>
        marker[r] \in 1..Len(obs) /\ obs[marker[r]].value = r
  /\ last.op = "observe" /\ Eligible(last.target) =>
        /\ last.result = ROb(marker[last.target])
        /\ last.old.num # 0 => last.result.num = last.old.num
        /\ ObservationOn => last.result.num # 0

\* observe called again on a container that already carried an Observer
C1_Witness ==
  /\ last.op = "observe"
  /\ Eligible(last.target)
  /\ last.old.num # 0
  /\ last.result = ROb(last.old.num)

\* ------------------------------------------------------------------ C2
Count(w, list) == Cardinality({n \in 1..Len(list) : list[n] = w})
\* the slot the last call addressed
LastSlot == props[last.target][last.key]
\* the last call was a write to a reactive property
ReactiveWrite ==
  last.op = "write" /\ last.target \in ObjRefs /\ last.old.flag

\* C2: a write of a different value to a reactive slot starts one pass over
\* the slot's Dep, and a pass over that Dep calls update() at most once, and
\* by its end exactly once, on each Subscriber that had joined once when it
\* began; writing the value the slot already holds starts no pass, so no
\* update() is called.
C2_WriteUpdatesOnce ==
  ReactiveWrite =>
    IF last.val # last.old.val
    THEN /\ last.notif = <<LastSlot.dep>>
         /\ \A f \in {frames[n] : n \in 1..Len(frames)} \cup {done} :
              f.dep = LastSlot.dep =>
                \A w \in Subscribers : Count(w, f.start) = 1 =>
                  /\ Count(w, f.fired) <= 1
                  /\ f.upd = 0 /\ f.i > f.l => Count(w, f.fired) = 1
    ELSE last.notif = <<>>

\* W read root.a in its evaluation, root.a = 2 updated it once, and the
\* same write made again started nothing
C2_Witness ==
  /\ ReactiveWrite
  /\ last.key = "a"
  /\ last.val = "n2"
  /\ last.old.val = "n2"
  /\ last.notif = <<>>
  /\ frames = <<>>
  /\ done.dep = LastSlot.dep
  /\ done.start = <<1>>
  /\ done.fired = <<1>>
  /\ LastSlot.dep \in depIds[1]
  /\ obs[marker["o1"]].vmCount = 1

\* ------------------------------------------------------------------ C3
\* C3: a write of the value a reactive slot already holds (strictly equal,
\* or NaN over NaN) notifies nobody and leaves the value and the cached
\* child Observer as they were.
C3_SameValueIsNoOp ==
  ReactiveWrite /\ last.val = last.old.val =>
    /\ last.notif = <<>>
    /\ GetValue(LastSlot) = last.old.val
    /\ LastSlot.childOb = last.old.num

\* NaN written over NaN
C3_Witness ==
  /\ ReactiveWrite
  /\ last.val = "NaN"
  /\ last.old.val = "NaN"
  /\ last.notif = <<>>

Passes == {frames[n] : n \in 1..Len(frames)} \cup {done}
\* update() was called in ascending id order
Ordered(f) ==
  \A m, n \in 1..Len(f.fired) : m < n => f.fired[m] <= f.fired[n]

Finished(f) == f.upd = 0 /\ f.i > f.l

\* C5: a pass calls update() on the Subscribers its Dep had when it began,
\* once per occurrence, whatever is added to or removed from the list
\* during the pass.
C5_PassUsesSnapshot ==
  \A f \in Passes : \A w \in Subscribers \cup {0} :
    /\ Count(w, f.fired) <= Count(w, f.start)
    /\ Finished(f) => Count(w, f.fired) = Count(w, f.start)

\* a pass that ended after one of its Subscribers was removed and another
\* Subscriber was added while it ran
C5_Witness ==
  IF frames = <<>> THEN FALSE
  ELSE /\ Finished(Top)
       /\ \E w \in Subscribers :
            Count(w, Top.start) = 1 /\ Count(w, subs[Top.dep]) = 0
            /\ Count(w, Top.fired) = 1
       /\ \E w \in Subscribers :
            Count(w, Top.start) = 0 /\ Count(w, subs[Top.dep]) = 1

\* ------------------------------------------------------------------ C7
\* the last call was one of the seven methods, on an array that carried an
\* Observer
InterceptedCall == last.op \in Methods /\ last.old.num # 0
\* what the native method returns for the array and arguments of the call
NativeReturn ==
  IF last.op \in {"sort", "reverse"} THEN RVal(last.target)
  ELSE Native(Heap, last.op, last.old.elems, last.args).result

\* C7: a call of an intercepted method on an observed array returns what
\* the native method returns, leaves the array as the native method does,
\* and notifies the Dep of the array's Observer exactly once, whether or
\* not the array changed.
C7_NativeResultOneNotify ==
  InterceptedCall =>
    /\ last.result = NativeReturn
    /\ elems[last.target] = Native(Heap, last.op, last.old.elems, last.args).elems
    /\ last.notif = <<obs[last.old.num].dep>>

\* pop on an empty observed array: undefined, and one notification
C7_Witness ==
  /\ InterceptedCall
  /\ last.op = "pop"
  /\ last.old.elems = <<>>
  /\ elems[last.target] = <<>>
  /\ last.result = RUndefined
  /\ Len(last.notif) = 1

\* ------------------------------------------------------------------ C8
\* v carries an Observer of its own
Observed(v) == marker[v] # 0 /\ obs[marker[v]].value = v
\* the inserted arguments that are plain objects or arrays are observed
InsertedObserved ==
  \A n \in 1..Len(last.args.items) :
    LET v == last.args.items[n]
    IN isPlainObject(v) \/ isArray(v) => Observed(v)
\* the inserted arguments that observe accepts are observed
InsertedEligibleObserved ==
  \A n \in 1..Len(last.args.items) :
    Eligible(last.args.items[n]) => Observed(last.args.items[n])

\* C8 as claimed: after push, unshift or splice on an observed array every
\* inserted container carries an Observer, and the other four methods
\* create no Observer
C8_InsertedAlwaysObserved ==
  InterceptedCall =>
    IF last.op \in {"push", "unshift", "splice"} THEN InsertedObserved
    ELSE Len(obs) = last.old.count

\* C8: after push, unshift or splice on an observed array, made while
\* observation is on, every inserted container that observe accepts (an
\* extensible plain object or array, no Vue instance and no VNode) carries
\* an Observer, and pop, shift, sort and reverse create no Observer.
C8_InsertedObservedWhenOn ==
  InterceptedCall =>
    IF last.op \in {"push", "unshift", "splice"}
    THEN ObservationOn => InsertedEligibleObserved
    ELSE Len(obs) = last.old.count

\* push of a plain object that carried no Observer, which now carries one
C8_Witness ==
  /\ InterceptedCall
  /\ last.op = "push"
  /\ last.args.items = <<"o2">>
  /\ Len(obs) = last.old.count + 1
  /\ obs[Len(obs)].value = "o2"
  /\ marker["o2"] = Len(obs)

\* ------------------------------------------------------------------ C9
\* the last call was del(arr, i) with a valid index i
DelIndex == last.op = "del" /\ isArray(last.target) /\ isValidArrayIndex(last.key)
\* the last call was del of a key that is no own property of a container
DelAbsentKey ==
  /\ last.op = "del"
  /\ ~DelIndex
  /\ last.target \in ObjRefs \cup ArrRefs
  /\ ~last.old.has
\* items without the element at index i
Without(items, i) ==
  IF i >= Len(items) THEN items
  ELSE SubSeq(items, 1, i) \o SubSeq(items, i + 2, Len(items))

\* C9 as claimed: del(arr, i) removes the element at i and notifies once if
\* there is one, and del of an absent key, an index at or past the length
\* included, notifies nobody and changes nothing
C9_AbsentKeyNeverNotifies ==
  /\ DelIndex /\ last.old.num # 0 =>
       /\ elems[last.target] = Without(last.old.elems, ToIndex(last.key))
       /\ last.notif = IF ToIndex(last.key) < Len(last.old.elems)
                       THEN <<obs[last.old.num].dep>> ELSE <<>>
  /\ DelAbsentKey =>
       last.notif = <<>> /\ ~hasOwn(Heap, last.target, last.key)

\* C9: del(arr, i) with a valid index i on an observed array removes the
\* element at i if there is one and notifies the array's Dep exactly once,
\* also when i is at or past the length and the array stays as it was;
\* del of a key that is no own property, on an object or with a key that
\* is no index on an array, notifies nobody and changes nothing.
C9_DelIndexAlwaysNotifies ==
  /\ DelIndex /\ last.old.num # 0 =>
       /\ elems[last.target] = Without(last.old.elems, ToIndex(last.key))
       /\ last.notif = <<obs[last.old.num].dep>>
  /\ DelAbsentKey =>
       /\ last.notif = <<>>
       /\ ~hasOwn(Heap, last.target, last.key)
       /\ isArray(last.target) => elems[last.target] = last.old.elems

\* del(arr, 2) on the observed [a, b, c, d] left [a, b, d], notifying once
C9_Witness ==
  /\ DelIndex
  /\ last.key = "2"
  /\ last.old.num # 0
  /\ last.old.elems = <<"n1", "n2", "o2", "a2">>
  /\ elems[last.target] = <<"n1", "n2", "a2">>
  /\ Len(last.notif) = 1

\* ----------------------------------------------------------------- C10
\* C10 as claimed: no call of set or del ends with an exception
C10_SetDelNeverThrow == last.op \in {"set", "del"} => ~last.threw

\* ----------------------------------------------------------------- C11
\* the heap with the root-usage counter of target's Observer set to n
WithCount(S, target, n) == [S EXCEPT !.obs[S.marker[target]].vmCount = n]
\* what a call leaves: the properties, the arrays, the notifications
Effect(S) == <<S.props, S.elems, S.notif>>
\* set / del of this call, made with the counter at n
SetWith(n, in) == Effect(set(WithCount(Heap, in[1], n), in[1], in[2], in[3]))
DelWith(n, in) == Effect(del(WithCount(Heap, in[1], n), in[1], in[2]))
\* the call goes to the array's splice, or set finds the key in the target
BeforeRootTest(target, key) == isArray(target) /\ isValidArrayIndex(key)
\* the last call was set or del on an object whose Observer counts a root
\* use, with a key the object did not have
RootCallAbsentKey ==
  /\ last.op \in {"set", "del"}
  /\ last.target \in ObjRefs
  /\ marker[last.target] # 0
  /\ obs[marker[last.target]].vmCount > 0
  /\ ~last.old.has

SetNewKey ==
  /\ last.op = "set"
  /\ last.target \in ObjRefs
  /\ marker[last.target] # 0
  /\ obs[marker[last.target]].vmCount = 0
  /\ ~last.old.has

\* C12: set of a new key on an observed object that is no root leaves the
\* key reactive and holding the value, notifies the Dep of the object's
\* Observer once and no other Dep, and returns the value.
C12_SetAddsReactiveKey ==
  SetNewKey =>
    /\ LastSlot.has /\ LastSlot.reactive
    /\ GetValue(LastSlot) = last.val
    /\ last.notif = <<obs[marker[last.target]].dep>>
    /\ last.result = RVal(last.val)
    /\ ~last.threw

\* set(o2, "b", o2's value) with a Subscriber on o2's other key
C12_Witness ==
  /\ SetNewKey
  /\ last.key = "b"
  /\ LastSlot.reactive
  /\ Len(last.notif) = 1
  /\ last.notif[1] # LastSlot.dep
  /\ subs[props[last.target]["a"].dep] # <<>>

\* ----------------------------------------------------------------- C13
\* the pass the last call started has called nobody yet
FreshPass(dep) ==
  IF frames = <<>> THEN FALSE
  ELSE Top.dep = dep /\ Top.i = 1 /\ Top.upd = 0
\* the last call wrote a different value to the reactive o.x
WriteOfX ==
  /\ ReactiveWrite
  /\ last.target = "o2"
  /\ last.key = "a"
  /\ last.val # last.old.val
\* the Dep of o's Observer
StructuralDep == obs[marker["o2"]].dep

\* C13 as claimed: the write o.x = 2 made after set(o, "x", 1) returned
\* notifies every Subscriber that was subscribed to the Dep of o's Observer
\* at the set call
C13_WriteNotifiesStructuralReaders ==
  WriteOfX /\ done.dep = StructuralDep /\ FreshPass(LastSlot.dep) =>
    \A w \in Subscribers : Count(w, done.start) > 0 => Count(w, Top.start) > 0

\* C13: set(o, "x", 1) on the observed o = {} makes o.x reactive and starts
\* a pass over the Subscribers of the Dep of o's Observer; a write of a
\* different value to o.x starts a pass over exactly the Subscribers that
\* registered with the Dep of o.x by reading o.x.
C13_WriteNotifiesSlotReaders ==
  /\ SetNewKey =>
       /\ LastSlot.reactive
       /\ FreshPass(StructuralDep) =>
            /\ subs[LastSlot.dep] = <<>>
            /\ \A w \in Subscribers :
                 Count(w, Top.start) > 0 <=> StructuralDep \in depIds[w]
  /\ WriteOfX =>
       /\ last.notif = <<LastSlot.dep>>
       /\ FreshPass(LastSlot.dep) =>
            \A w \in Subscribers :
              Count(w, Top.start) > 0 <=> LastSlot.dep \in depIds[w]

\* Subscriber 1 read o structurally, was updated by the set, read o.x, and
\* is in the pass of the write
C13_Witness ==
  /\ WriteOfX
  /\ done.dep = StructuralDep
  /\ done.fired = <<1>>
  /\ FreshPass(LastSlot.dep)
  /\ Top.start = <<1>>

\* ----------------------------------------------------------------- C14
\* the last call was set(arr, i, v) with a valid index on an observed array
SetIndex ==
  /\ last.op = "set"
  /\ isArray(last.target)
  /\ isValidArrayIndex(last.key)
  /\ last.old.num # 0
\* arr[i] is v, the length is max(old length, i + 1), the other indices
\* below the old length are as they were, one notification of the array
SetIndexPlaces ==
  LET i == ToIndex(last.key)
      n == Len(last.old.elems)
      arr == elems[last.target]
  IN /\ Len(arr) = Max(n, i + 1)
     /\ arr[i + 1] = last.val
     /\ \A j \in 1..n : j # i + 1 => arr[j] = last.old.elems[j]
     /\ last.notif = <<obs[last.old.num].dep>>
     /\ last.result = RVal(last.val)

\* C14 as claimed: set(arr, i, v) places v, keeps the rest, notifies once
\* and leaves v observed whenever v is a plain object or an array
C14_SetIndexObservesContainer ==
  SetIndex =>
    /\ SetIndexPlaces
    /\ isPlainObject(last.val) \/ isArray(last.val) => Observed(last.val)

\* C14: set(arr, i, v) with a valid index on an observed array leaves
\* arr[i] = v and the length max(old length, i + 1), keeps every other
\* index below the old length, notifies the array's Dep once, and leaves v
\* observed if observe accepts v and observation is on.
C14_SetIndexObservesEligible ==
  SetIndex =>
    /\ SetIndexPlaces
    /\ ObservationOn /\ Eligible(last.val) => Observed(last.val)

\* set(arr, 3, o) on [a, b]: [a, b, undefined, o], and o is observed
C14_Witness ==
  /\ SetIndex
  /\ last.key = "3"
  /\ last.old.elems = <<"n1", "n2">>
  /\ elems[last.target] = <<"n1", "n2", "undef", "o2">>
  /\ Observed("o2")
  /\ Len(last.notif) = 1

\* ----------------------------------------------------------------- C15
\* the most recently pushed entry that has not been popped, or none
StackTop == IF targetStack = <<>> THEN 0 ELSE targetStack[Len(targetStack)]
\* the entry a pop would make current
BelowTop ==
  IF Len(targetStack) <= 1 THEN 0 ELSE targetStack[Len(targetStack) - 1]

\* C15: Dep.target is the top of targetStack, or none when it is empty:
\* pushTarget(s) makes s current above the reader that was current, which a
\* matching popTarget() makes current again.
C15_TargetIsStackTop ==
  /\ DepTarget = StackTop
  /\ last.op = "pushTarget" =>
       /\ DepTarget = last.args.start
       /\ Len(targetStack) = last.old.count + 1
       /\ BelowTop = last.old.num
  /\ last.op = "popTarget" =>
       Len(targetStack) = Max(last.old.count - 1, 0)

\* pushTarget(1), pushTarget(2), popTarget(): 1 is current again
C15_Witness ==
  /\ last.op = "popTarget"
  /\ last.old.num = 2
  /\ last.old.count = 2
  /\ targetStack = <<1>>
  /\ DepTarget = 1

\* ----------------------------------------------------------------- C16
\* this step is a read
ReadStep == calls' = calls + 1 /\ last'.op = "read"
\* the last call was a read of a reactive property with a current reader
ReaderRead == last.op = "read" /\ last.args.start # 0 /\ LastSlot.reactive
\* Subscriber w is registered with dep
Joined(w, dep) == dep \in depIds[w] /\ Count(w, subs[dep]) >= 1

\* C16: a read made while the top of targetStack is no reader leaves every
\* subscriber list and every Subscriber's record of its Deps as they were; a
\* read made with a Subscriber on top registers that Subscriber.
C16_NoReaderNoEdge ==
  /\ [][ReadStep /\ StackTop = 0 => subs' = subs /\ depIds' = depIds]_vars
  /\ [](ReaderRead =>
          last.args.start = StackTop /\ Joined(StackTop, LastSlot.dep))

\* a read between pushTarget(undefined) and its popTarget(), inside the
\* evaluation of Subscriber 1: nobody is registered anywhere
C16_Witness ==
  /\ last.op = "read"
  /\ last.args.start = 0
  /\ targetStack = <<1, 0>>
  /\ LastSlot.reactive
  /\ \A d \in 1..Len(subs) : subs[d] = <<>>

\* ----------------------------------------------------------------- C17
\* the elements of an array, with those of the arrays nested in it
RECURSIVE Within(_)
Within(items) ==
  IF items = <<>> THEN {}
  ELSE {Head(items)}
       \cup (IF isArray(Head(items)) THEN Within(elems[Head(items)]) ELSE {})
       \cup Within(Tail(items))
\* the current reader of the last read is registered with the Observer Dep
\* of every observed element of arr, nested arrays included
JoinedElements(arr) ==
  \A e \in Within(elems[arr]) :
    isObject(e) /\ marker[e] # 0 => Joined(last.args.start, obs[marker[e]].dep)

\* C17 as claimed: a read by a current Subscriber registers it with the
\* slot's Dep, with the Dep of the held value's Observer when the held value
\* is observed, and with the Observer Deps of the elements when the held
\* value is an array
C17_ReadJoinsHeldValue ==
  ReaderRead =>
    LET value == GetValue(LastSlot)
    IN /\ Joined(last.args.start, LastSlot.dep)
       /\ isObject(value) /\ marker[value] # 0 =>
            Joined(last.args.start, obs[marker[value]].dep)
       /\ isArray(value) => JoinedElements(value)

\* C17: a read by a current Subscriber registers it with the slot's Dep;
\* when the slot has a cached child Observer (the Observer observe returned
\* for the value when the slot was defined or last written), with that
\* Observer's Dep, and if the held value is an array also with the Observer
\* Dep of every observed element, nested arrays included.
C17_ReadJoinsCachedChild ==
  ReaderRead =>
    LET value == GetValue(LastSlot)
    IN /\ Joined(last.args.start, LastSlot.dep)
       /\ LastSlot.childOb # 0 =>
            /\ Joined(last.args.start, obs[LastSlot.childOb].dep)
            /\ isArray(value) => JoinedElements(value)

\* Subscriber 1 read o1.a, an array holding an object and a nested array
C17_Witness ==
  /\ ReaderRead
  /\ last.args.start = 1
  /\ GetValue(LastSlot) = "a1"
  /\ LastSlot.childOb = marker["a1"]
  /\ Joined(1, obs[marker["a1"]].dep)
  /\ Joined(1, obs[marker["a2"]].dep)
  /\ Joined(1, obs[marker["o2"]].dep)

\* ----------------------------------------------------------------- C19
\* the last call wrote to a reactive property that had a getter and no
\* setter before it was made reactive
GetterOnlyWrite == ReactiveWrite /\ LastSlot.getter /\ ~LastSlot.setter

\* C19: a write to a reactive property whose own getter came without a
\* setter is dropped: the property reads as before, nobody is notified and
\* nothing is thrown.
C19_GetterOnlyWriteDropped ==
  /\ GetterOnlyWrite =>
       /\ GetValue(LastSlot) = last.old.val
       /\ LastSlot.childOb = last.old.num
       /\ last.notif = <<>>
       /\ ~last.threw
  /\ last.op = "read" /\ LastSlot.getter => last.result = RVal(LastSlot.store)

\* a write of another value to the getter-only property a Subscriber reads
C19_Witness ==
  /\ GetterOnlyWrite
  /\ last.val # last.old.val
  /\ subs[LastSlot.dep] = <<1>>
  /\ GetValue(LastSlot) = "o2"
  /\ frames = <<>>

\* ----------------------------------------------------------------- C18
\* what observe returned for the state it found
ObserveReturn ==
  last.op = "observe" =>
    /\ last.old.num # 0 => last.result = ROb(last.old.num)
    /\ last.old.num = 0 /\ ~shouldObserve => last.result = ROb(0)
    /\ last.old.num = 0 /\ ObservationOn /\ Eligible(last.target) =>
         /\ last.result.num = Len(obs)
         /\ marker[last.target] = Len(obs)

\* C18: a step taken while shouldObserve is false creates no Observer and
\* marks no value; observe then returns nothing for a value without an
\* Observer and the existing Observer for a value that has one, and creates
\* Observers again once shouldObserve is true.
C18_NoObserverWhileOff ==
  /\ [][~shouldObserve => Len(obs') = Len(obs) /\ marker' = marker]_vars
  /\ []ObserveReturn

\* push of an unobserved object after toggleObserving(false): no Observer
C18_Witness ==
  /\ ~shouldObserve
  /\ last.op = "push"
  /\ last.args.items = <<"o2">>
  /\ elems["a1"] = <<"n1", "o2">>
  /\ marker["o2"] = 0
  /\ Len(obs) = last.old.count

\* ----------------------------------------------------------------- C20
\* the keys that hold a vnode
Cached == {k \in CacheKeys : cache[k] # 0}

Larger(m, n) == IF m > n THEN m ELSE n

ReactiveSlots ==
  {<<o, k>> \in ObjRefs \X Names : marker[o] # 0 /\ props[o][k].reactive}
\* the value a read of the slot returns
Held(o, k) == GetValue(props[o][k])
\* the slot holds no container and caches no child Observer, or caches the
\* Observer its container carries
ChildIsCurrent(o, k) ==
  IF isObject(Held(o, k))
  THEN marker[Held(o, k)] # 0 /\ props[o][k].childOb = marker[Held(o, k)]
  ELSE props[o][k].childOb = 0
\* every container among the elements of an observed array carries an Observer
ElementsObserved ==
  \A a \in ArrRefs : marker[a] # 0 =>
    \A n \in 1..Len(elems[a]) : isObject(elems[a][n]) => marker[elems[a][n]] # 0

UpdateOfLast ==
  IF frames = <<>> \/ last.notif = <<>> THEN FALSE
  ELSE Top.upd # 0 /\ Top.dep = last.notif[1]
\* what a read of the written property returns, and the Observer the slot
\* caches, are those of the new value
NewValueInPlace ==
  /\ GetValue(LastSlot) = last.val
  /\ LastSlot.childOb = (IF isObject(last.val) THEN marker[last.val] ELSE 0)
  /\ Eligible(last.val) /\ ObservationOn => Observed(last.val)
\* the array holds what the native method leaves
NewContentsInPlace ==
  elems[last.target] = Native(Heap, last.op, last.old.elems, last.args).elems

\* C22: a call changes no data after it has called notify(); so while an
\* update() runs for a property write, the property reads as the new value
\* and the slot caches the Observer the new container carries, and while it
\* runs for an intercepted array call, the array has its new contents and
\* the inserted containers that observe accepts are observed.
C22_NotifiedAfterMutation ==
  /\ \A f \in Passes : f.settled
  /\ UpdateOfLast /\ ReactiveWrite => NewValueInPlace
  /\ UpdateOfLast /\ InterceptedCall =>
       NewContentsInPlace /\ InsertedEligibleObserved

\* update() of Subscriber 1 runs for a1.push(a2), a2 = [o2]: a1 ends with
\* a2, and a2 and o2 are observed
C22_Witness ==
  /\ UpdateOfLast
  /\ Top.upd = 1
  /\ last.op = "push" /\ last.args.items = <<"a2">>
  /\ last.old.num # 0
  /\ elems["a1"] = <<"n1", "a2">>
  /\ marker["a2"] # 0 /\ marker["o2"] # 0

\* ----------------------------------------------------------------- C23
\* this step is a write to a reactive property
WriteStep == calls' = calls + 1 /\ last'.op = "write" /\ last'.old.flag
\* every reactive slot has a Dep of its own: no other slot and no Observer
\* has the same one
AllSlots == {s \in ObjRefs \X Names : props[s[1]][s[2]].reactive}
SlotDep(s) == props[s[1]][s[2]].dep
OwnDeps ==
  /\ \A s, t \in AllSlots : s # t => SlotDep(s) # SlotDep(t)
  /\ \A s \in AllSlots : \A n \in 1..Len(obs) : SlotDep(s) # obs[n].dep
\* update() was called only on Subscribers the Dep had when the pass began
OnlyOwnSubscribers(f) ==
  \A n \in 1..Len(f.fired) : Count(f.fired[n], f.start) >= 1

\* C23: a write to a reactive slot leaves every existing subscriber list and
\* every Subscriber's record as they were (a Dep it creates has no
\* Subscriber); it starts no pass but one over the slot's own Dep, which no
\* other slot and no Observer shares, and a pass calls update() only on
\* Subscribers that were in its Dep's list when it began.
C23_WriteUpdatesOwnSubscribers ==
  /\ [][WriteStep =>
          /\ SubSeq(subs', 1, Len(subs)) = subs
          /\ \A d \in (Len(subs) + 1)..Len(subs') : subs'[d] = <<>>
          /\ depIds' = depIds]_vars
  /\ [](/\ OwnDeps
        /\ ReactiveWrite => last.notif \in {<<>>, <<LastSlot.dep>>}
        /\ \A f \in Passes : OnlyOwnSubscribers(f))

\* Subscriber 1 is in the list of o1.a's Dep, Subscriber 2 in that of o1's
\* Observer Dep: the pass of the write o1.a = 2 has ended with one update(),
\* of Subscriber 1
C23_Witness ==
  /\ ReactiveWrite /\ last.target = "o1" /\ last.key = "a"
  /\ last.notif = <<LastSlot.dep>>
  /\ subs[LastSlot.dep] = <<1>>
  /\ subs[obs[marker["o1"]].dep] = <<2>>
  /\ frames = <<>>
  /\ done.dep = LastSlot.dep
  /\ done.fired = <<1>>

\* ----------------------------------------------------------------- C24
\* the slot that is written, and the Subscribers of its Dep
WrittenSlot == props["o1"]["a"]
SlotSubscribers == subs[WrittenSlot.dep]
\* the update() calls of the slot's Subscribers write back one fixed value
OneValue ==
  ~(Count(1, SlotSubscribers) >= 1 /\ Count(2, SlotSubscribers) >= 1)
\* the passes below the innermost one stand still in this step
OuterPassesWait ==
  \A n \in 1..(Len(frames) - 1) : n <= Len(frames') /\ frames'[n] = frames[n]
\* update() is running in a nested pass and has made its write
NestedWriteBack ==
  IF Len(frames) < 2 THEN FALSE
  ELSE Top.upd # 0 /\ WritesBack(Top.upd) # "none"

\* C24: while a nested pass is on the call stack the outer passes stand
\* still; when the Subscribers of the written slot write back one fixed
\* value c, the write made in the nested pass is a no-op, no third pass
\* starts, the original write returns, and once update() has written, the
\* slot holds c when it returns.
C24_ReentrantWriteConverges ==
  /\ [][OuterPassesWait]_vars
  /\ [](OneValue =>
          /\ Len(frames) <= 2
          /\ calls < limit
          /\ NestedWriteBack => last.op = "write" /\ last.notif = <<>>
          /\ frames = <<>> /\ calls >= 2 =>
               \E w \in {1, 2} : /\ Count(w, SlotSubscribers) >= 1
                                 /\ GetValue(WrittenSlot) = WritesBack(w))
  /\ (OneValue /\ calls >= 1) ~> (frames = <<>>)

\* o1.a = NaN was written with Subscriber 1 subscribed: its update() wrote
\* 2, the nested pass called it again, that write was a no-op, and both
\* passes have returned with o1.a = 2
C24_Witness ==
  /\ SlotSubscribers = <<1>>
  /\ frames = <<>>
  /\ calls = 3
  /\ done.dep = WrittenSlot.dep
  /\ done.fired = <<1>>
  /\ last.op = "write" /\ last.notif = <<>> /\ last.old.val = "n2"
  /\ GetValue(WrittenSlot) = "n2"

====
